---- MODULE Spec2Model ----
(***************************************************************************)
(* Model of the ign-gazebo launcher (main executable): command-line       *)
(* parsing, fork/exec of the server and GUI, the SIGINT callback with      *)
(* KillProcess, and the wait()/exit-status logic of main.                 *)
(*                                                                         *)
(* Every process that executes the code of main is modelled with the same *)
(* actions: the launcher itself (Root) and any forked child whose execvp  *)
(* failed and which therefore keeps executing main after the fork branch. *)
(* A child whose execvp succeeded is an opaque image that may exit at any *)
(* time; an image that never exits is one that ignores SIGINT.            *)
(***************************************************************************)
EXTENDS Integers, FiniteSets, Sequences, TLC

\* Scaled-down poll budget of KillProcess, (unsigned int)(_timeout / sleepSecs)
MaxPolls == 2
\* Number of termination signals the environment delivers to the launcher
MaxSignals == 2

\* Process table: the launcher, its server child, its GUI child, and the
\* GUI forked by a server child whose execvp failed.
Root == 1
ServerSlot == 2
GuiSlot == 3
NestedGuiSlot == 4
Procs == {Root, ServerSlot, GuiSlot, NestedGuiSlot}

\* Longest command line tried for the argument pass-through (argc - 1)
MaxArgs == 2

\* Value of a pid_t variable that was declared but never assigned
Uninit == -7
\* Return value of a failed fork() / wait() / waitpid()
Failed == -1

VARIABLES
  received,      \* history: the argument vector main was started with
  _argv,         \* main's _argv; gflags removes the flags it has parsed
  argvServer,    \* argument vector built for the server
  argvGui,       \* argument vector built for the GUI
  execArgv,      \* argument vector each child handed to execvp
  argv,          \* the received command line, as the flags it carries
  FLAGS_s,       \* -s
  FLAGS_g,       \* -g
  FLAGS_verbose, \* --verbose after parsing
  showHelp,      \* -h or --help given
  showVersion,   \* --version given
  printed,       \* what main printed before an early return
  st,            \* OS state of each process
  status,        \* exit status of a terminated process
  pgid,          \* process group of each process
  pending,       \* SIGINT pending for a process
  proc,          \* locals of main, per process executing main
  nExt,          \* signals delivered so far by the environment
  gotInt,        \* history: the parent sent SIGINT to this child
  nKill,         \* history: SIGKILLs the parent sent to this child (2 = many)
  sent,          \* history: the last kill() call of each process
  extBoth        \* history: a signal reached Root while both children lived

osvars == <<st, status, pgid, pending>>
optvars == <<argv, FLAGS_s, FLAGS_g, FLAGS_verbose, showHelp, showVersion, printed>>
argvars == <<received, _argv, argvServer, argvGui>>
flagvars == <<optvars, argvars, execArgv>>
histvars == <<gotInt, nKill, sent, extBoth>>
vars == <<received, _argv, argvServer, argvGui, execArgv, argv, FLAGS_s, FLAGS_g, FLAGS_verbose, showHelp, showVersion, printed,
          st, status, pgid, pending, proc, nExt, gotInt, nKill, sent, extBoth>>

\* Locals of main before anything is assigned
InitLoc ==
  [pc |-> "parse", serverPid |-> Uninit, guiPid |-> Uninit,
   guiKilled |-> FALSE, serverKilled |-> FALSE, sigKilled |-> FALSE,
   deadChild |-> Uninit, returnValue |-> 0,
   hstate |-> "default", hpc |-> "idle", htarget |-> "gui", hi |-> 0]

\* Locals of a process that does not execute main (unused, image, killed)
NoLoc == [InitLoc EXCEPT !.pc = "none"]

NoSig == [pid |-> Uninit, sig |-> "none", killed |-> FALSE,
          tstate |-> "none", polls |-> 0]

Parent(c) == IF c = NestedGuiSlot THEN ServerSlot ELSE IF c = Root THEN 0 ELSE Root

\* static bool VerbosityValidator(const char *, int _value)
VerbosityValidatorMutant(_value) == _value >= 0 /\ _value < 4

VerbosityValidator(_value) == _value >= 0 /\ _value <= 4

\* Values tried for -v / --verbose; NotGiven is an absent flag
NotGiven == 99
VerbosityInputs == {NotGiven, -1, 5}
AllVerbosity == {NotGiven} \cup (-1..5)

\* Command lines over a set of verbosity values
CommandLines(V) ==
  [h : BOOLEAN, version : BOOLEAN, s : BOOLEAN, g : BOOLEAN, v : V, verbose : V]

\* main, lines 183-199: which early return is taken
EarlyReturnMutant(help, version) ==
  IF version THEN "version" ELSE IF help THEN "help" ELSE "none"

EarlyReturn(help, version) ==
  IF help THEN "help" ELSE IF version THEN "version" ELSE "none"

\* main, lines 255-259: the value main returns for a child's exit status
ExitValueMutant(s) == IF s = "signaled" THEN -1 ELSE 0

ExitValue(s) == IF s = "exit0" THEN 0 ELSE -1

\* One element of an argument vector: a flag with its value, or flag "arg"
\* for a positional argument
Tok(f, x) == [flag |-> f, val |-> x]

\* The flags DEFINE_* declares (lines 34-43) and gflags' own help, version
KnownFlags ==
  {"-h", "--help", "--version", "-v", "--verbose", "-z", "--iterations",
   "-s", "-g", "-f", "-r"}

\* A vector that carries exactly the flags of the record a
VectorOf(a) ==
  <<Tok("ign-gazebo", 0)>>
    \o (IF a.h THEN <<Tok("-h", 0)>> ELSE <<>>)
    \o (IF a.version THEN <<Tok("--version", 0)>> ELSE <<>>)
    \o (IF a.s THEN <<Tok("-s", 0)>> ELSE <<>>)
    \o (IF a.g THEN <<Tok("-g", 0)>> ELSE <<>>)
    \o (IF a.v # NotGiven THEN <<Tok("-v", a.v)>> ELSE <<>>)
    \o (IF a.verbose # NotGiven THEN <<Tok("--verbose", a.verbose)>> ELSE <<>>)

\* The flags a vector carries; a repeated flag takes its last value
LastVal(vec, f) ==
  LET I == {i \in 2..Len(vec) : vec[i].flag = f}
  IN IF I = {} THEN NotGiven
     ELSE vec[CHOOSE i \in I : \A j \in I : j <= i].val
Has(vec, F) == \E i \in 2..Len(vec) : vec[i].flag \in F
FlagsOf(vec) ==
  [h |-> Has(vec, {"-h", "--help"}), version |-> Has(vec, {"--version"}),
   s |-> Has(vec, {"-s"}), g |-> Has(vec, {"-g"}),
   v |-> LastVal(vec, "-v"), verbose |-> LastVal(vec, "--verbose")]

\* gflags refuses a vector with an undefined flag or a value its validator
\* refuses (ParseCommandLineNonHelpFlags, line 154)
Unparsable(vec) ==
  \E i \in 2..Len(vec) :
     \/ vec[i].flag \notin KnownFlags \cup {"arg"}
     \/ vec[i].flag \in {"-v", "--verbose"} /\ ~VerbosityValidator(vec[i].val)

\* ParseCommandLineNonHelpFlags(&_argc, &_argv, true): what is left of _argv
RECURSIVE RemoveFlags(_)
RemoveFlags(vec) ==
  IF vec = <<>> THEN <<>>
  ELSE IF Head(vec).flag \in KnownFlags THEN RemoveFlags(Tail(vec))
  ELSE <<Head(vec)>> \o RemoveFlags(Tail(vec))

\* main, lines 135-146: the vector built for a child from _argv
ChildArgvMutant(name, vec) ==
  <<Tok(name, 0)>> \o SubSeq(vec, 2, Len(vec) - 1)

ChildArgv(name, vec) ==
  <<Tok(name, 0)>> \o SubSeq(vec, 2, Len(vec))

InitProcs ==
  /\ argvServer = <<>> /\ argvGui = <<>>
  /\ execArgv = [p \in Procs |-> <<>>]
  /\ FLAGS_s = FALSE /\ FLAGS_g = FALSE /\ FLAGS_verbose = 1
  /\ showHelp = FALSE /\ showVersion = FALSE /\ printed = "none"
  /\ st = [p \in Procs |-> IF p = Root THEN "run" ELSE "unused"]
  /\ status = [p \in Procs |-> "none"]
  /\ pgid = [p \in Procs |-> Root]
  /\ pending = [p \in Procs |-> FALSE]
  /\ proc = [p \in Procs |-> IF p = Root THEN InitLoc ELSE NoLoc]
  /\ nExt = 0
  /\ gotInt = [p \in Procs |-> FALSE]
  /\ nKill = [p \in Procs |-> 0]
  /\ sent = [p \in Procs |-> NoSig]
  /\ extBoth = FALSE

Init ==
  /\ argv \in CommandLines(VerbosityInputs)
  /\ received = VectorOf(argv) /\ _argv = received
  /\ InitProcs

\* DEFINE_int32(v, 1, "") after parsing
FLAGS_v == IF argv.v = NotGiven THEN 1 ELSE argv.v

\* main, lines 208 and 223: the guards of the two forks
RunServer == ~FLAGS_g
RunGui == ~FLAGS_s

Alive(q) == st[q] \in {"run", "image"}

\* A process executes a statement of main only outside the signal callback
InMain(p, at) == st[p] = "run" /\ proc[p].pc = at /\ proc[p].hpc = "idle"

-----------------------------------------------------------------------------
\* main, lines 133-204: the children's vectors, flag validation, help,
\* version, verbosity
ParseCommandLine(p) ==
  /\ InMain(p, "parse")
  /\ argvServer' = ChildArgv("ign-gazebo-server", _argv)
  /\ argvGui' = ChildArgv("ign-gazebo-gui", _argv)
  /\ _argv' = RemoveFlags(_argv)
  /\ UNCHANGED <<received, execArgv>>
  /\ IF \/ (argv.v # NotGiven /\ ~VerbosityValidator(argv.v))
        \/ (argv.verbose # NotGiven /\ ~VerbosityValidator(argv.verbose))
        \/ Unparsable(_argv)
     THEN \* gflags reports the failed validation and exits with status 1
          /\ st' = [st EXCEPT ![p] = "zombie"]
          /\ status' = [status EXCEPT ![p] = "exitN"]
          /\ proc' = [proc EXCEPT ![p].pc = "rejected"]
          /\ UNCHANGED <<FLAGS_s, FLAGS_g, FLAGS_verbose, showHelp,
                         showVersion, printed>>
     ELSE /\ FLAGS_s' = argv.s /\ FLAGS_g' = argv.g
          /\ showHelp' = argv.h /\ showVersion' = argv.version
          /\ FLAGS_verbose' = IF argv.verbose # NotGiven THEN argv.verbose
                              ELSE IF argv.v # NotGiven THEN FLAGS_v ELSE 1
          /\ printed' = EarlyReturn(argv.h, argv.version)
          /\ IF printed' # "none"
             THEN /\ proc' = [proc EXCEPT ![p].pc = "done", ![p].returnValue = 0]
                  /\ st' = [st EXCEPT ![p] = "zombie"]
                  /\ status' = [status EXCEPT ![p] = "exit0"]
             ELSE /\ proc' = [proc EXCEPT ![p].pc = "forkServer"]
                  /\ UNCHANGED <<st, status>>
  /\ UNCHANGED <<argv, pgid, pending, nExt, histvars>>

\* main, lines 206-211 (parent side of the server fork)
ForkServer(p, ok) ==
  /\ InMain(p, "forkServer")
  /\ IF RunServer
     THEN IF ok
          THEN /\ st' = [st EXCEPT ![ServerSlot] = "run"]
               /\ pgid' = [pgid EXCEPT ![ServerSlot] = pgid[p]]
               /\ proc' = [proc EXCEPT
                    ![p].serverPid = ServerSlot, ![p].pc = "forkGui",
                    ![ServerSlot] = [proc[p] EXCEPT !.serverPid = 0,
                                                    !.pc = "execServer"]]
          ELSE /\ proc' = [proc EXCEPT ![p].serverPid = Failed,
                                       ![p].pc = "forkGui"]
               /\ UNCHANGED <<st, pgid>>
     ELSE /\ proc' = [proc EXCEPT ![p].pc = "forkGui"]
          /\ UNCHANGED <<st, pgid>>
  /\ UNCHANGED <<flagvars, status, pending, nExt, histvars>>

\* main, lines 211-218 (child side): setpgid, execvp; a failed execvp returns
ExecServer(c, ok) ==
  /\ InMain(c, "execServer")
  /\ pgid' = [pgid EXCEPT ![c] = c]
  /\ IF ok
     THEN /\ st' = [st EXCEPT ![c] = "image"]
          /\ proc' = [proc EXCEPT ![c] = NoLoc]
     ELSE /\ proc' = [proc EXCEPT ![c].pc = "forkGui"]
          /\ UNCHANGED st
  /\ execArgv' = [execArgv EXCEPT ![c] = argvServer]
  /\ UNCHANGED <<optvars, argvars, status, pending, nExt, histvars>>

GuiChildOf(p) == IF p = Root THEN GuiSlot ELSE NestedGuiSlot

\* main, lines 221-226 (parent side of the GUI fork)
ForkGui(p, ok) ==
  /\ InMain(p, "forkGui")
  /\ IF RunGui
     THEN IF ok
          THEN LET c == GuiChildOf(p) IN
               /\ st' = [st EXCEPT ![c] = "run"]
               /\ pgid' = [pgid EXCEPT ![c] = pgid[p]]
               /\ proc' = [proc EXCEPT
                    ![p].guiPid = c, ![p].pc = "construct",
                    ![c] = [proc[p] EXCEPT !.guiPid = 0, !.pc = "execGui"]]
          ELSE /\ proc' = [proc EXCEPT ![p].guiPid = Failed,
                                       ![p].pc = "construct"]
               /\ UNCHANGED <<st, pgid>>
     ELSE /\ proc' = [proc EXCEPT ![p].pc = "construct"]
          /\ UNCHANGED <<st, pgid>>
  /\ UNCHANGED <<flagvars, status, pending, nExt, histvars>>

\* main, lines 226-233 (child side): setpgid, execvp; a failed execvp returns
ExecGui(c, ok) ==
  /\ InMain(c, "execGui")
  /\ pgid' = [pgid EXCEPT ![c] = c]
  /\ IF ok
     THEN /\ st' = [st EXCEPT ![c] = "image"]
          /\ proc' = [proc EXCEPT ![c] = NoLoc]
     ELSE /\ proc' = [proc EXCEPT ![c].pc = "construct"]
          /\ UNCHANGED st
  /\ execArgv' = [execArgv EXCEPT ![c] = argvGui]
  /\ UNCHANGED <<optvars, argvars, status, pending, nExt, histvars>>

\* main, lines 236-240: the SignalHandler object installs the handler
Construct(p) ==
  /\ InMain(p, "construct")
  /\ proc' = [proc EXCEPT ![p].hstate = "nocb", ![p].guiKilled = FALSE,
                          ![p].serverKilled = FALSE, ![p].sigKilled = FALSE,
                          ![p].pc = "addCallback"]
  /\ UNCHANGED <<flagvars, osvars, nExt, histvars>>

\* main, lines 241-248: sigHandler.AddCallback(...)
AddCallback(p) ==
  /\ InMain(p, "addCallback")
  /\ proc' = [proc EXCEPT ![p].hstate = "cb", ![p].pc = "wait"]
  /\ UNCHANGED <<flagvars, osvars, nExt, histvars>>


-----------------------------------------------------------------------------
\* Processes that kill(pid, sig) called by p reaches
Targets(p, pid) ==
  IF pid > 0 THEN {q \in Procs : q = pid /\ Alive(q)}
  ELSE IF pid = 0 THEN {q \in Procs : Alive(q) /\ pgid[q] = pgid[p]}
  ELSE IF pid = Failed THEN {q \in Procs : Alive(q) /\ q # p}
  ELSE {}

\* Pids named by the call, for the history variables
Addressed(p, pid) ==
  IF pid > 0 THEN {q \in Procs : q = pid} ELSE Targets(p, pid)

\* State of the process named by a positive pid, "group" for pid <= 0
TargetState(pid) == IF pid \in Procs THEN st[pid] ELSE "group"

\* kill(pid, sig) called by p, whose locals become loc1.  SIGKILL ends every
\* target; SIGINT ends a target that has no handler installed, is left
\* pending for a target executing main, and is left to an image to honour.
Kill(p, pid, sig, killedFlag, loc1) ==
  LET T == Targets(p, pid)
      D == IF sig = "KILL" THEN T
           ELSE {q \in T : st[q] = "run" /\ proc[q].hstate = "default"}
      A == Addressed(p, pid)
  IN /\ st' = [q \in Procs |-> IF q \in D THEN "zombie" ELSE st[q]]
     /\ status' = [q \in Procs |-> IF q \in D THEN "signaled" ELSE status[q]]
     /\ pending' = [q \in Procs |->
           IF q \in D THEN FALSE
           ELSE IF sig = "INT" /\ q \in T /\ st[q] = "run" THEN TRUE
           ELSE pending[q]]
     /\ proc' = [q \in Procs |->
           IF q \in D THEN NoLoc ELSE IF q = p THEN loc1 ELSE proc[q]]
     /\ gotInt' = [q \in Procs |->
           gotInt[q] \/ (sig = "INT" /\ q \in A /\ Parent(q) = p)]
     /\ nKill' = [q \in Procs |->
           IF sig = "KILL" /\ q \in A /\ Parent(q) = p /\ nKill[q] < 2
           THEN nKill[q] + 1 ELSE nKill[q]]
     /\ sent' = [sent EXCEPT ![p] =
           [pid |-> pid, sig |-> sig, killed |-> killedFlag,
            tstate |-> TargetState(pid), polls |-> proc[p].hi]]
     /\ UNCHANGED <<pgid, extBoth>>

\* KillProcess arguments of the call the callback is executing
KpPid(loc) == IF loc.htarget = "gui" THEN loc.guiPid ELSE loc.serverPid
KpKilled(loc) == IF loc.htarget = "gui" THEN loc.guiKilled ELSE loc.serverKilled
SetKpKilled(loc) ==
  IF loc.htarget = "gui" THEN [loc EXCEPT !.guiKilled = TRUE]
  ELSE [loc EXCEPT !.serverKilled = TRUE]

\* (unsigned int)(_timeout / sleepSecs), KillProcess line 105
PollBudget == MaxPolls

\* Callback, lines 243-247: entry, up to the first KillProcess call
StartCallbackMutant(loc) ==
  LET l0 == [loc EXCEPT !.sigKilled = TRUE, !.guiKilled = FALSE,
                        !.serverKilled = FALSE]
  IN IF RunGui THEN [l0 EXCEPT !.hpc = "int", !.htarget = "gui", !.hi = 0]
     ELSE IF RunServer
     THEN [l0 EXCEPT !.hpc = "int", !.htarget = "server", !.hi = 0]
     ELSE l0

StartCallback(loc) ==
  IF RunGui
  THEN [loc EXCEPT !.sigKilled = TRUE, !.hpc = "int", !.htarget = "gui", !.hi = 0]
  ELSE IF RunServer
  THEN [loc EXCEPT !.sigKilled = TRUE, !.hpc = "int", !.htarget = "server", !.hi = 0]
  ELSE [loc EXCEPT !.sigKilled = TRUE]

\* Callback, lines 245-248: after a KillProcess call returns
AfterKillProcessMutant(loc) ==
  [loc EXCEPT !.hpc = "idle", !.htarget = "gui", !.hi = 0]

AfterKillProcess(loc) ==
  IF loc.htarget = "gui" /\ RunServer
  THEN [loc EXCEPT !.hpc = "int", !.htarget = "server", !.hi = 0]
  ELSE [loc EXCEPT !.hpc = "idle", !.htarget = "gui", !.hi = 0]

\* A SIGINT reaches p outside the callback: default action, handler without
\* callback, or the callback of lines 241-248
Handle(p) ==
  /\ extBoth' = (extBoth \/ (p = Root /\ Alive(ServerSlot) /\ Alive(GuiSlot)))
  /\ IF proc[p].hstate = "default"
     THEN /\ st' = [st EXCEPT ![p] = "zombie"]
          /\ status' = [status EXCEPT ![p] = "signaled"]
          /\ proc' = [proc EXCEPT ![p] = NoLoc]
     ELSE /\ proc' = [proc EXCEPT ![p] =
                IF proc[p].hstate = "cb" THEN StartCallback(proc[p]) ELSE proc[p]]
          /\ UNCHANGED <<st, status>>
  /\ UNCHANGED <<flagvars, pgid, gotInt, nKill, sent>>

\* A termination signal from the environment (terminal, kill command).  The
\* signal is blocked while the callback runs, so one that arrives then is
\* handled when the callback returns.
ExtSignal ==
  /\ st[Root] = "run" /\ nExt < MaxSignals /\ proc[Root].hpc = "idle"
  /\ nExt' = nExt + 1
  /\ pending' = [pending EXCEPT ![Root] = FALSE]
  /\ Handle(Root)

\* Delivery of a SIGINT that another process sent with kill()
Deliver(p) ==
  /\ st[p] = "run" /\ pending[p] /\ proc[p].hpc = "idle"
  /\ pending' = [pending EXCEPT ![p] = FALSE]
  /\ Handle(p)
  /\ UNCHANGED nExt

\* KillProcess, line 100: kill(_pid, SIGINT)
KpInt(p) ==
  /\ st[p] = "run" /\ proc[p].hpc = "int"
  /\ Kill(p, KpPid(proc[p]), "INT", KpKilled(proc[p]),
          [proc[p] EXCEPT !.hpc = IF PollBudget > 0 THEN "poll" ELSE "esc",
                          !.hi = 0])
  /\ UNCHANGED <<flagvars, nExt>>

\* Children of p that waitpid(pid, ...) selects
Selected(p, pid) ==
  {c \in Procs : /\ Parent(c) = p
                 /\ st[c] \in {"run", "image", "zombie"}
                 /\ \/ pid = c
                    \/ pid = 0 /\ pgid[c] = pgid[p]
                    \/ pid = Failed}

\* Possible return values of waitpid(pid, &status, WNOHANG) called by p
WaitPidMutant(p, pid) ==
  LET C == Selected(p, pid)
      Z == {c \in C : st[c] = "zombie"}
  IN IF Z # {} THEN Z ELSE IF C # {} THEN {} ELSE {Failed}

WaitPid(p, pid) ==
  LET C == Selected(p, pid)
      Z == {c \in C : st[c] = "zombie"}
  IN IF Z # {} THEN Z ELSE IF C # {} THEN {0} ELSE {Failed}

\* KillProcess, lines 105-119: the test and the poll of one loop iteration
KpPoll(p, r) ==
  /\ st[p] = "run" /\ proc[p].hpc = "poll"
  /\ LET loc == proc[p] IN
     IF KpKilled(loc)
     THEN /\ r = 0
          /\ proc' = [proc EXCEPT ![p] = [loc EXCEPT !.hpc = "esc", !.hi = 0]]
          /\ UNCHANGED <<st, status>>
     ELSE /\ r \in WaitPid(p, KpPid(loc))
          /\ st' = [q \in Procs |-> IF q = r THEN "reaped" ELSE st[q]]
          /\ status' = [q \in Procs |-> IF q = r THEN "none" ELSE status[q]]
          /\ proc' = [proc EXCEPT ![p] =
                IF r = KpPid(loc)
                THEN [SetKpKilled(loc) EXCEPT !.hpc = "esc", !.hi = 0]
                ELSE [loc EXCEPT !.hpc = "sleep"]]
  /\ UNCHANGED <<flagvars, pgid, pending, nExt, histvars>>

\* KillProcess, lines 105, 121: Time::Sleep(sleepSecs), ++i and the loop test
KpSleep(p) ==
  /\ st[p] = "run" /\ proc[p].hpc = "sleep"
  /\ proc' = [proc EXCEPT ![p].hi = proc[p].hi + 1,
                          ![p].hpc = IF proc[p].hi + 1 < PollBudget
                                     THEN "poll" ELSE "esc"]
  /\ UNCHANGED <<flagvars, osvars, nExt, histvars>>

\* KillProcess, line 123: the test that guards kill(_pid, SIGKILL)
MustEscalateMutant(loc) == FALSE

MustEscalate(loc) == ~KpKilled(loc)

\* KillProcess, lines 123-127: escalation, then back in the callback
KpEsc(p) ==
  /\ st[p] = "run" /\ proc[p].hpc = "esc"
  /\ IF MustEscalate(proc[p])
     THEN Kill(p, KpPid(proc[p]), "KILL", FALSE, AfterKillProcess(proc[p]))
     ELSE /\ proc' = [proc EXCEPT ![p] = AfterKillProcess(proc[p])]
          /\ UNCHANGED <<osvars, histvars>>
  /\ UNCHANGED <<flagvars, nExt>>

\* Children of p whose exit status has not been collected
Unreaped(p) ==
  {c \in Procs : Parent(c) = p /\ st[c] \in {"run", "image", "zombie"}}

\* main, lines 250-259: wait(&child_exit_status) and the exit-status test.
\* c is the child collected, or Failed when there is none to wait for; the
\* status word is then never written and rv is what the test makes of it.
Wait(p, c, rv) ==
  /\ InMain(p, "wait")
  /\ IF c = Failed
     THEN /\ Unreaped(p) = {}
          /\ UNCHANGED st
     ELSE /\ c \in Unreaped(p) /\ st[c] = "zombie"
          /\ rv = ExitValue(status[c])
          /\ st' = [st EXCEPT ![c] = "reaped"]
  /\ proc' = [proc EXCEPT ![p].deadChild = c, ![p].returnValue = rv,
                          ![p].pc = "setKilled"]
  /\ UNCHANGED <<flagvars, status, pgid, pending, nExt, histvars>>

\* Outcomes of a == b when b may never have been assigned
EqPid(a, b) == IF b = Uninit THEN BOOLEAN ELSE {a = b}

\* main, lines 261-264
SetKilled(p, eqGui, eqServer) ==
  /\ InMain(p, "setKilled")
  /\ eqGui \in EqPid(proc[p].deadChild, proc[p].guiPid)
  /\ eqServer \in EqPid(proc[p].deadChild, proc[p].serverPid)
  /\ proc' = [proc EXCEPT ![p] =
        IF eqGui THEN [proc[p] EXCEPT !.guiKilled = TRUE, !.pc = "checkSig"]
        ELSE IF eqServer
        THEN [proc[p] EXCEPT !.serverKilled = TRUE, !.pc = "checkSig"]
        ELSE [proc[p] EXCEPT !.pc = "checkSig"]]
  /\ UNCHANGED <<flagvars, osvars, nExt, histvars>>

\* main, line 267: the test that guards std::raise(SIGINT)
ShouldRaiseMutant(loc) == FALSE

ShouldRaise(loc) == ~loc.sigKilled

\* main, lines 266-268: std::raise(SIGINT) runs the callback before returning
CheckSig(p) ==
  /\ InMain(p, "checkSig")
  /\ proc' = [proc EXCEPT ![p] =
        IF ShouldRaise(proc[p])
        THEN StartCallback([proc[p] EXCEPT !.pc = "ret"])
        ELSE [proc[p] EXCEPT !.pc = "ret"]]
  /\ UNCHANGED <<flagvars, osvars, nExt, histvars>>

\* main, lines 270-274: return returnValue
Return(p) ==
  /\ InMain(p, "ret")
  /\ st' = [st EXCEPT ![p] = "zombie"]
  /\ status' = [status EXCEPT ![p] =
        IF proc[p].returnValue = 0 THEN "exit0" ELSE "exitN"]
  /\ proc' = [proc EXCEPT ![p].pc = "done"]
  /\ UNCHANGED <<flagvars, pgid, pending, nExt, histvars>>

\* A server or GUI image ends on its own or in answer to SIGINT
ImageExit(c, kind) ==
  /\ st[c] = "image"
  /\ st' = [st EXCEPT ![c] = "zombie"]
  /\ status' = [status EXCEPT ![c] = kind]
  /\ UNCHANGED <<flagvars, pgid, pending, proc, nExt, histvars>>

ExitKinds == {"exit0", "exitN", "signaled"}

Next ==
  \/ ParseCommandLine(Root)
  \/ \E ok \in BOOLEAN : ForkServer(Root, ok)
  \/ \E ok \in BOOLEAN : ExecServer(ServerSlot, ok)
  \/ \E p \in Procs, ok \in BOOLEAN : ForkGui(p, ok)
  \/ \E c \in Procs, ok \in BOOLEAN : ExecGui(c, ok)
  \/ \E p \in Procs : Construct(p)
  \/ \E p \in Procs : AddCallback(p)
  \/ \E p \in Procs : \E c \in Procs \cup {Failed}, rv \in {0, -1} : Wait(p, c, rv)
  \/ \E p \in Procs : \E eqGui, eqServer \in BOOLEAN : SetKilled(p, eqGui, eqServer)
  \/ \E p \in Procs : CheckSig(p)
  \/ \E p \in Procs : Return(p)
  \/ ExtSignal
  \/ \E p \in Procs : Deliver(p)
  \/ \E p \in Procs : KpInt(p)
  \/ \E p \in Procs : \E r \in Procs \cup {0, Failed} : KpPoll(p, r)
  \/ \E p \in Procs : KpSleep(p)
  \/ \E p \in Procs : KpEsc(p)
  \/ \E c \in Procs, kind \in ExitKinds : ImageExit(c, kind)

Spec == Init /\ [][Next]_vars

\* A step of the launcher process itself, in main or in its callback
RootStep ==
  \/ \E c \in Procs \cup {Failed}, rv \in {0, -1} : Wait(Root, c, rv)
  \/ \E eqGui, eqServer \in BOOLEAN : SetKilled(Root, eqGui, eqServer)
  \/ CheckSig(Root)
  \/ Return(Root)
  \/ KpInt(Root)
  \/ \E r \in Procs \cup {0, Failed} : KpPoll(Root, r)
  \/ KpSleep(Root)
  \/ KpEsc(Root)

\* The same launcher when the operating system keeps scheduling it: a step
\* of the launcher that stays possible is eventually taken.  Nothing is
\* assumed of the children, of the forked copies of main or of the signals.
FairSpec == Spec /\ WF_vars(RootStep)

\* The fairly scheduled launcher where every execvp succeeds, so that its
\* children are the server and the GUI and no forked copy of main runs on.
\* fork may fail, signals arrive from outside at any time, and the children
\* end whenever they like or not at all.
NextLaunch ==
  \/ ParseCommandLine(Root)
  \/ \E ok \in BOOLEAN : ForkServer(Root, ok)
  \/ ExecServer(ServerSlot, TRUE)
  \/ \E ok \in BOOLEAN : ForkGui(Root, ok)
  \/ ExecGui(GuiSlot, TRUE)
  \/ Construct(Root)
  \/ AddCallback(Root)
  \/ ExtSignal
  \/ RootStep
  \/ \E c \in Procs, kind \in ExitKinds : ImageExit(c, kind)

FairLaunch == Init /\ [][NextLaunch]_vars /\ WF_vars(RootStep)

\* The launcher over every verbosity value, in an environment where fork and
\* execvp succeed and no signal arrives from outside
InitArgs ==
  /\ argv \in CommandLines(AllVerbosity)
  /\ received = VectorOf(argv) /\ _argv = received
  /\ InitProcs

NextArgs ==
  \/ ParseCommandLine(Root)
  \/ ForkServer(Root, TRUE)
  \/ ExecServer(ServerSlot, TRUE)
  \/ ForkGui(Root, TRUE)
  \/ ExecGui(GuiSlot, TRUE)
  \/ Construct(Root)
  \/ AddCallback(Root)
  \/ \E c \in Procs \cup {Failed}, rv \in {0, -1} : Wait(Root, c, rv)
  \/ \E eqGui, eqServer \in BOOLEAN : SetKilled(Root, eqGui, eqServer)
  \/ CheckSig(Root)
  \/ Return(Root)
  \/ KpInt(Root)
  \/ \E r \in Procs \cup {0, Failed} : KpPoll(Root, r)
  \/ KpSleep(Root)
  \/ KpEsc(Root)
  \/ \E c \in Procs, kind \in ExitKinds : ImageExit(c, kind)

SpecArgs == InitArgs /\ [][NextArgs]_vars

\* The launcher over every argument vector of up to MaxArgs arguments, in
\* the same environment
ArgTokens ==
  {Tok("-s", 0), Tok("-g", 0), Tok("-r", 0), Tok("-v", 4), Tok("arg", 0),
   Tok("--gui-config", 0)}
RECURSIVE Vectors(_)
Vectors(n) ==
  IF n = 0 THEN {<<Tok("ign-gazebo", 0)>>}
  ELSE Vectors(n - 1) \cup
       {vec \o <<t>> : vec \in {w \in Vectors(n - 1) : Len(w) = n},
                       t \in ArgTokens}

InitArgv ==
  /\ received \in Vectors(MaxArgs) /\ _argv = received
  /\ argv = FlagsOf(received)
  /\ InitProcs

SpecArgv == InitArgv /\ [][NextArgs]_vars

-----------------------------------------------------------------------------
\* The launcher's own locals, and the points of its run the claims speak of
R == proc[Root]
Parsed == R.pc \notin {"parse", "none"}
PastSpawn ==
  /\ printed = "none"
  /\ R.pc \in {"construct", "addCallback", "wait", "setKilled", "checkSig",
               "ret", "done"}
Exited == R.pc = "done" /\ printed = "none"
Role(c) == IF c = ServerSlot THEN "server" ELSE "gui"
Spawned(role) == {c \in Procs \ {Root} : Role(c) = role /\ st[c] # "unused"}
BadVerbosity ==
  \/ argv.v # NotGiven /\ argv.v \notin 0..4
  \/ argv.verbose # NotGiven /\ argv.verbose \notin 0..4

\* C1: with both -s and -g set, once the launcher is past its spawn phase it
\* has spawned the server and has not spawned the GUI.
C1_ServerOnlyPrecedence ==
  (FLAGS_s /\ FLAGS_g /\ PastSpawn) =>
     (R.serverPid # Uninit /\ R.guiPid = Uninit)

\* C2: in the three launch modes (-s alone, -g alone, neither), whenever the
\* operating system grants the launcher's forks, no role is ever spawned more
\* often than planned, and once the launcher is past its spawn phase every
\* planned role has been spawned exactly once and no other role at all.
C2_PlannedRoles ==
  IF FLAGS_s THEN {"server"} ELSE IF FLAGS_g THEN {"gui"} ELSE {"server", "gui"}

C2_ExactlyPlannedSet ==
  (printed = "none" /\ ~(FLAGS_s /\ FLAGS_g)
     /\ R.serverPid # Failed /\ R.guiPid # Failed) =>
  \A role \in {"server", "gui"} :
     LET want == IF role \in C2_PlannedRoles THEN 1 ELSE 0 IN
     /\ Cardinality(Spawned(role)) <= want
     /\ PastSpawn => Cardinality(Spawned(role)) = want

\* C3: KillProcess entered for a child with its killed flag already true
\* sends no signal: no kill() call of the launcher on a child's pid is ever
\* made with the flag true on entry.
C3_TerminateIdempotent ==
  ~(sent[Root].sig # "none" /\ sent[Root].killed /\ sent[Root].pid \in Procs)

\* C4: the launcher sends SIGKILL to a child's pid at most once, only after a
\* full poll budget with the child still not confirmed dead, and a child that
\* outlives a whole KillProcess call does get it (no child is alive once the
\* callback has run to completion).
C4_ForcefulKillExactlyOnce ==
  /\ \A c \in {ServerSlot, GuiSlot} : nKill[c] <= 1
  /\ sent[Root].sig = "KILL" =>
        (sent[Root].polls = PollBudget /\ ~sent[Root].killed)
  /\ (st[Root] = "run" /\ R.sigKilled /\ R.hpc = "idle") =>
        \A c \in {ServerSlot, GuiSlot} : ~Alive(c)

\* C5: if a termination signal reached the launcher while both the server and
\* the GUI were alive, then by the time main has returned both children have
\* been sent SIGINT by the launcher.
C5_BothChildrenGetSigint ==
  (Exited /\ extBoth) => (gotInt[ServerSlot] /\ gotInt[GuiSlot])

C5_Witness ==
  /\ Exited /\ extBoth /\ gotInt[ServerSlot] /\ gotInt[GuiSlot]
  /\ R.deadChild = GuiSlot

\* C6: when a child's exit woke the launcher's wait(), then by the time main
\* has returned the callback has run (sigKilled is true) and every child the
\* launcher spawned has been sent SIGINT and is no longer alive.
C6_SiblingBroughtDown ==
  (Exited /\ R.deadChild \in Procs) =>
     /\ R.sigKilled
     /\ \A c \in {ServerSlot, GuiSlot} :
           st[c] # "unused" => (gotInt[c] /\ ~Alive(c))

\* The server exits nonzero first with no signal from anywhere; the GUI
\* ignores SIGINT and is ended by the escalation.
C6_Witness ==
  /\ Exited /\ R.deadChild = ServerSlot /\ status[ServerSlot] = "exitN"
  /\ nExt = 0 /\ \A c \in Procs \ {Root} : sent[c] = NoSig
  /\ gotInt[GuiSlot] /\ st[GuiSlot] = "zombie" /\ nKill[GuiSlot] = 1
  /\ R.returnValue = -1

\* C7: when a child's exit woke the launcher's wait(), main returns 0 exactly
\* if that child exited normally with status 0, and -1 otherwise; the
\* launcher's own exit status follows the returned value.
C7_AggregateExitStatus ==
  (Exited /\ R.deadChild \in Procs) =>
     /\ R.returnValue \in {0, -1}
     /\ (R.returnValue = 0) <=> (status[R.deadChild] = "exit0")
     /\ (status[Root] = "exit0") <=> (R.returnValue = 0)

C7_Witness ==
  /\ Exited /\ R.deadChild = ServerSlot /\ status[ServerSlot] = "exit0"
  /\ R.returnValue = 0 /\ st[GuiSlot] # "unused"

\* C8: a forked child whose execvp failed runs no further launcher logic: no
\* forked child ever installs the signal handler, sends a signal or forks.
C8_ExecFailureEndsChild ==
  /\ \A c \in Procs \ {Root} : proc[c].hstate = "default" /\ sent[c] = NoSig
  /\ st[NestedGuiSlot] = "unused"

\* C9: a -v / --verbose value outside 0..4 is rejected by the parse and no
\* child is ever spawned in that run; with every given value inside 0..4 the
\* parse does not reject, FLAGS_verbose takes the given value, and without
\* help or version the launcher goes on to its spawn phase.
C9_VerbosityValidation ==
  /\ BadVerbosity =>
        /\ R.pc \in {"parse", "rejected"}
        /\ \A c \in Procs \ {Root} : st[c] = "unused"
  /\ (~BadVerbosity /\ R.pc # "parse") =>
        /\ R.pc # "rejected"
        /\ FLAGS_verbose = IF argv.verbose # NotGiven THEN argv.verbose
                           ELSE IF argv.v # NotGiven THEN argv.v ELSE 1
        /\ (~argv.h /\ ~argv.version) => printed = "none"

C9_Witness ==
  /\ argv.verbose = 5 /\ argv.v = NotGiven /\ ~argv.h /\ ~argv.version
  /\ R.pc = "rejected" /\ status[Root] = "exitN"
  /\ \A c \in Procs \ {Root} : st[c] = "unused"

ExeName(c) == IF Role(c) = "server" THEN "ign-gazebo-server" ELSE "ign-gazebo-gui"

C12_ExitOnlyAfterChildrenReaped ==
  Exited => \A c \in {ServerSlot, GuiSlot} : st[c] \in {"unused", "reaped"}

\* C13: shutdown always completes.  Once the launcher is shutting down (its
\* callback has been entered, or its wait() has returned), main eventually
\* returns, whatever the children do, and no KillProcess call polls more
\* often than its budget.
ShuttingDown ==
  /\ st[Root] = "run"
  /\ R.sigKilled \/ R.pc \in {"setKilled", "checkSig", "ret"}

C13_ShutdownCompletes ==
  /\ ShuttingDown ~> Exited
  /\ [](R.hi <= PollBudget)

\* The launcher returned after a callback that spent the whole budget on a
\* GUI that did not end on SIGINT
C13_Witness ==
  /\ Exited /\ R.sigKilled /\ nExt = 1
  /\ sent[Root].sig = "KILL" /\ sent[Root].pid = GuiSlot
  /\ sent[Root].polls = PollBudget

\* C14: whenever a KillProcess call of the launcher returns, the killed flag
\* of the child it was called for is true, after a poll that confirmed the
\* death as well as after the escalation.
KilledFlag(loc, target) ==
  IF target = "gui" THEN loc.guiKilled ELSE loc.serverKilled

C14_KilledOnReturn ==
  [][(st[Root] = "run" /\ R.hpc = "esc" /\ KpPid(R) \in Procs
        /\ st'[Root] = "run" /\ proc'[Root].hpc # "esc")
     => KilledFlag(proc'[Root], R.htarget)]_vars

\* C15: under every interleaving of the callback with main's wait(), the
\* launcher sends SIGKILL only to a child that is still there to receive it.
\* Taken in its weakest reading: SIGKILL never goes to the pid of a child
\* whose exit status has already been collected.
C15_SigkillOnlyToUnreaped ==
  (sent[Root].sig = "KILL" /\ sent[Root].pid \in Procs) =>
     sent[Root].tstate # "reaped"

\* C16: with both children planned, the callback finishes KillProcess for the
\* GUI before it starts it for the server, and the server is not sent SIGINT
\* by the launcher before the GUI is confirmed dead (guiKilled) or has been
\* sent SIGKILL.
GuiSettled == R.guiKilled \/ nKill[GuiSlot] > 0

C16_GuiBeforeServer ==
  (~FLAGS_s /\ ~FLAGS_g /\ st[Root] = "run") =>
     /\ (R.hpc # "idle" /\ R.htarget = "server") => GuiSettled
     /\ gotInt[ServerSlot] => GuiSettled

\* C17: in every process that runs main, sigKilled, guiKilled and
\* serverKilled are false until a step sets them, and no step of main, of the
\* callback or of KillProcess sets one of them back from true to false.
C17_FlagsMonotonic ==
  [][\A p \in Procs :
       (proc[p].pc # "none" /\ proc'[p].pc # "none") =>
          /\ proc[p].sigKilled => proc'[p].sigKilled
          /\ proc[p].guiKilled => proc'[p].guiKilled
          /\ proc[p].serverKilled => proc'[p].serverKilled
          /\ proc[p].pc \in {"parse", "forkServer", "forkGui", "construct"} =>
                ~(proc[p].sigKilled \/ proc[p].guiKilled \/ proc[p].serverKilled)]_vars

\* The launcher returned with all three flags set: wait() collected the GUI,
\* the raised signal ran the callback, and a poll confirmed the server dead
C17_Witness ==
  /\ Exited /\ R.sigKilled /\ R.guiKilled /\ R.serverKilled
  /\ R.deadChild = GuiSlot /\ st[ServerSlot] = "reaped" /\ nExt = 0

\* C18: no child is spawned after sigKilled has become true: no step forks a
\* server or a GUI once the launcher's callback has been entered.
C18_NoSpawnAfterSignal ==
  [][(\E c \in Procs : st[c] = "unused" /\ st'[c] # "unused")
     => ~R.sigKilled]_vars

\* C19: when the launcher checks sigKilled after its wait() has returned, it
\* raises SIGINT exactly if the flag is false: with the flag true the step
\* starts no further pass of the callback, with the flag false the callback
\* is entered on the spot, and so main never reaches its return with
\* sigKilled false.
C19_RaiseIffNotSignaled ==
  /\ [][(R.pc = "checkSig" /\ proc'[Root].pc = "ret") =>
          /\ R.sigKilled => proc'[Root] = [R EXCEPT !.pc = "ret"]
          /\ ~R.sigKilled =>
                /\ proc'[Root].sigKilled
                /\ (RunGui \/ RunServer) => proc'[Root].hpc = "int"]_vars
  /\ [](R.pc \in {"ret", "done"} /\ printed = "none" => R.sigKilled)

\* A signal came first: the callback ended the server with SIGKILL, wait()
\* collected it, and the test of line 267 started no second pass before main returned
C19_Witness ==
  /\ Exited /\ nExt = 1 /\ R.sigKilled /\ R.deadChild = ServerSlot
  /\ sent[Root].sig = "KILL" /\ sent[Root].pid = ServerSlot
  /\ nKill[ServerSlot] = 1 /\ st[ServerSlot] = "reaped"

\* C20: every invocation of the launcher's callback terminates.  While it
\* runs, its next step never waits for anything (waitpid is called with
\* WNOHANG); a KillProcess call polls at most PollBudget times; a poll that
\* does not confirm the death is followed by one sleep, which is followed by
\* the next poll or by the end of the loop; and the callback always returns.
CallbackRunning == st[Root] = "run" /\ R.hpc # "idle"

CallbackStep ==
  \/ KpInt(Root)
  \/ \E r \in Procs \cup {0, Failed} : KpPoll(Root, r)
  \/ KpSleep(Root)
  \/ KpEsc(Root)

C20_CallbackTerminates ==
  /\ [](CallbackRunning => ENABLED CallbackStep)
  /\ [](R.hpc \in {"poll", "sleep"} => R.hi < PollBudget)
  /\ [][(st[Root] = "run" /\ st'[Root] = "run") =>
          /\ (R.hpc = "poll" /\ proc'[Root] # R)
                => IF KilledFlag(proc'[Root], R.htarget)
                   THEN proc'[Root].hpc = "esc"
                   ELSE proc'[Root] = [R EXCEPT !.hpc = "sleep"]
          /\ (R.hpc = "sleep" /\ proc'[Root] # R)
                => /\ proc'[Root].hi = R.hi + 1
                   /\ proc'[Root].hpc \in {"poll", "esc"}]_vars
  /\ CallbackRunning ~> ~CallbackRunning

\* A callback that ran on a signal during wait() has returned after spending
\* the whole poll budget on each of the two children
C20_Witness ==
  /\ st[Root] = "run" /\ R.pc = "wait" /\ R.hpc = "idle" /\ R.sigKilled
  /\ ~R.guiKilled /\ ~R.serverKilled
  /\ nKill[GuiSlot] = 1 /\ nKill[ServerSlot] = 1
  /\ sent[Root].polls = PollBudget

\* C21: whenever the launcher has computed its exit status, its wait() had
\* returned the pid of a child it spawned, never a failure for want of an
\* un-reaped child.  Stated for the runs in which both children were
\* spawned, where only the polls of KillProcess can have left none.
C21_StatusFromReapedChild ==
  (st[Root] = "run" /\ R.pc \in {"setKilled", "checkSig", "ret"}
     /\ R.serverPid \in Procs /\ R.guiPid \in Procs)
  => R.deadChild \in Procs

\* C22: every signal the launcher sends, SIGINT or SIGKILL, goes to the pid
\* of a child that it spawned, never to pid 0, to pid -1 or to a pid variable
\* that was never assigned.
C22_SignalsOnlyToOwnChildren ==
  sent[Root].sig # "none" =>
     /\ sent[Root].pid \in {ServerSlot, GuiSlot}
     /\ sent[Root].tstate # "unused"

TypeOK ==
  /\ FLAGS_verbose \in 0..4
  /\ \A p \in Procs : st[p] \in {"unused", "run", "image", "zombie", "reaped"}
====
